---- MODULE Spec2Model ----
(***************************************************************************)
(* django-transmeta: translatable model fields.                            *)
(*                                                                         *)
(* Python strings are TLA+ strings (Len, SubSeq and \o act on them), so    *)
(* that field names are built, normalised and truncated the way            *)
(* transmeta/__init__.py does it.  Python's None is the string None below. *)
(*                                                                         *)
(* Three specifications: Spec (an instance read and written through the    *)
(* canonical name), SpecBuild (one class statement with a Meta class given *)
(* to TransMeta.__new__), SpecInherit (a hierarchy of model classes).      *)
(***************************************************************************)
EXTENDS Integers, Sequences, FiniteSets, TLC

VARIABLES
    settings,   \* django.conf.settings: LANGUAGES, LANGUAGE_CODE, TRANSMETA_DEFAULT_LANGUAGE
    active,     \* what get_language() returns
    self,       \* a model instance: attribute name -> value
    meta,       \* self._meta: the options the accessors read
    hist,       \* the last accessor call: its inputs and its outcome
    attrs,      \* the class namespace handed to TransMeta.__new__
    Meta,       \* attrs['Meta']: attribute name -> value
    heap,       \* mutable lists (choices, validators, list defaults) by reference
    built,      \* the outcome of the last TransMeta.__new__ call with a marker
    types       \* the model classes built so far, oldest first

vars == <<settings, active, self, meta, hist, attrs, Meta, heap, built, types>>

None == "<None>"

\* Python truthiness of the values the accessors test (None and '' are falsy).
Truthy(v) == v # None /\ v # ""

(***************************************************************************)
(* Bounds of the model.                                                    *)
(***************************************************************************)
MaxLangs == 2       \* at most this many configured languages
MaxTypes == 3       \* at most this many model classes in a hierarchy

\* Language codes the configuration may list, and codes that may be active.
ConfigurableCodes == {"en", "fr", "fr-ca", "ka", "kab"}
ActiveCodes == ConfigurableCodes \cup {"es", "kab-dz"}
\* Values a concrete field may hold, and values of the default-language attribute.
Values == {None, "", "Hello"}
DefaultLangValues == {"", "fr", "es"}
\* The translatable field of the instance, and its default-language attribute.
Field == "title"
DefaultLangAttr == "default_lang"

(***************************************************************************)
(* Naming helpers (module level functions of transmeta).                   *)
(***************************************************************************)
\* str.replace('-', '_')
RECURSIVE Replace(_)
Replace(s) ==
    IF Len(s) = 0 THEN ""
    ELSE (IF SubSeq(s, 1, 1) = "-" THEN "_" ELSE SubSeq(s, 1, 1))
         \o Replace(SubSeq(s, 2, Len(s)))

\* s[:2]
Slice2(s) == IF Len(s) <= 2 THEN s ELSE SubSeq(s, 1, 2)

\* get_real_fieldname(field, lang); cur is what get_language() returns.
get_real_fieldname(field, lang, cur) ==
    LET l == IF lang = None THEN cur ELSE lang
    IN  field \o "_" \o Replace(l)

\* fallback_language(): getattr(settings, 'TRANSMETA_DEFAULT_LANGUAGE', settings.LANGUAGE_CODE)
fallback_language(s) ==
    IF s.TRANSMETA_DEFAULT_LANGUAGE # None
    THEN s.TRANSMETA_DEFAULT_LANGUAGE
    ELSE s.LANGUAGE_CODE

\* get_fallback_fieldname(field)
get_fallback_fieldname(field, s, cur) ==
    get_real_fieldname(field, fallback_language(s), cur)

\* get_real_fieldname_in_each_language(field)
get_real_fieldname_in_each_language(field, s, cur) ==
    [i \in 1..Len(s.LANGUAGES) |-> get_real_fieldname(field, s.LANGUAGES[i], cur)]

(***************************************************************************)
(* Attribute access on an instance.                                        *)
(***************************************************************************)
HasAttr(obj, name) == name \in DOMAIN obj
\* getattr(obj, name, None)
GetAttrOrNone(obj, name) == IF name \in DOMAIN obj THEN obj[name] ELSE None
\* setattr(obj, name, value)
SetAttr(obj, name, value) ==
    [n \in DOMAIN obj \cup {name} |-> IF n = name THEN value ELSE obj[n]]

\* Lines 66-71 and 101-106: the record's default language, or the process
\* fallback when the schema names no attribute, the attribute is missing,
\* or it holds a falsy value (the bare raise is caught by the bare except).
DefaultLanguageOf(obj, m, s) ==
    IF m.default_language_field = None THEN fallback_language(s)
    ELSE IF ~HasAttr(obj, m.default_language_field) THEN fallback_language(s)
    ELSE IF ~Truthy(obj[m.default_language_field]) THEN fallback_language(s)
    ELSE obj[m.default_language_field]

(***************************************************************************)
(* default_value_getter(field) -> default_value_func_getter(self)          *)
(* The outcome is [exc, val]: exc = None when the call returns val.        *)
(***************************************************************************)
GetterLanguage(field, obj, m, s, cur) ==
    LET attname(x) == get_real_fieldname(field, x, cur)
    IN  IF Truthy(GetAttrOrNone(obj, attname(cur))) THEN cur
        ELSE IF Truthy(GetAttrOrNone(obj, attname(Slice2(cur)))) THEN Slice2(cur)
        ELSE LET default_language == DefaultLanguageOf(obj, m, s)
             IN  IF Truthy(GetAttrOrNone(obj, attname(default_language)))
                 THEN default_language
                 ELSE Slice2(default_language)

default_value_func_getter(field, obj, m, s, cur) ==
    LET language == GetterLanguage(field, obj, m, s, cur)
        name == get_real_fieldname(field, language, cur)
    IN  IF Truthy(language)
        THEN IF HasAttr(obj, name)
             THEN [exc |-> None, val |-> obj[name]]
             ELSE [exc |-> "AttributeError", val |-> None]
        ELSE [exc |-> None, val |-> None]

(***************************************************************************)
(* default_value_setter(field) -> default_value_func_setter(self, value)   *)
(* The outcome is [exc, obj]: the instance after the call.                 *)
(***************************************************************************)
SetterLanguage(field, obj, m, s, cur) ==
    LET attname(x) == get_real_fieldname(field, x, cur)
    IN  IF HasAttr(obj, attname(cur)) THEN cur
        ELSE IF HasAttr(obj, attname(Slice2(cur))) THEN Slice2(cur)
        ELSE LET default_language == DefaultLanguageOf(obj, m, s)
             IN  IF HasAttr(obj, attname(default_language)) THEN default_language
                 ELSE IF HasAttr(obj, attname(Slice2(default_language)))
                      THEN Slice2(default_language)
                      ELSE None

default_value_func_setter(field, obj, value, m, s, cur) ==
    LET language == SetterLanguage(field, obj, m, s, cur)
    IN  IF Truthy(language)
        THEN [exc |-> None,
              obj |-> SetAttr(obj, get_real_fieldname(field, language, cur), value)]
        ELSE [exc |-> None, obj |-> obj]

(***************************************************************************)
(* Runtime specification: one instance of a model whose translatable field *)
(* title was expanded for the configured languages, read and written       *)
(* through the canonical name under changing active languages.             *)
(***************************************************************************)
\* The sequences over S of length at most n.
RECURSIVE SeqsOver(_, _)
SeqsOver(S, n) ==
    IF n = 0 THEN {<<>>}
    ELSE LET shorter == SeqsOver(S, n - 1)
         IN  shorter \cup
             {Append(q, c) : q \in {r \in shorter : Len(r) = n - 1},
                             c \in S}

NoRepeat(q) == \A i, j \in 1..Len(q) : i # j => q[i] # q[j]

\* settings.LANGUAGES: at least one language, none listed twice.
LanguageLists(S) == {q \in SeqsOver(S, MaxLangs) : Len(q) >= 1 /\ NoRepeat(q)}

Range(q) == {q[i] : i \in 1..Len(q)}

\* The instance Django builds for the expanded model: one stored attribute
\* per configured language, plus the default-language attribute if declared.
NewInstance(s, m) ==
    LET names == {get_real_fieldname(Field, l, None) : l \in Range(s.LANGUAGES)}
        extra == IF m.default_language_field = None THEN {}
                 ELSE {m.default_language_field}
    IN  [n \in names \cup extra |-> IF n \in names THEN None ELSE ""]

NoCall == [op |-> "none", before |-> <<>>, arg |-> None,
           exc |-> None, val |-> None, prevSet |-> FALSE, prevArg |-> None]

NotBuilt == [status |-> "none"]

Idle ==
    /\ attrs = <<>> /\ Meta = <<>> /\ heap = <<>> /\ built = NotBuilt /\ types = <<>>

Init ==
    /\ \E langs \in LanguageLists(ConfigurableCodes),
          code \in {"en", "en-us"},
          tdl \in {None, "fr"} :
          settings = [LANGUAGES |-> langs, LANGUAGE_CODE |-> code,
                      TRANSMETA_DEFAULT_LANGUAGE |-> tdl]
    /\ \E dlf \in {None, DefaultLangAttr} :
          meta = [default_language_field |-> dlf]
    /\ self = NewInstance(settings, meta)
    /\ active = settings.LANGUAGE_CODE
    /\ hist = NoCall
    /\ Idle

\* translation.activate(lang)
Activate(lang) ==
    /\ active' = lang
    /\ hist' = NoCall
    /\ UNCHANGED <<settings, self, meta, attrs, Meta, heap, built, types>>

\* instance.title_<lang> = v: a concrete field is an ordinary stored attribute
AssignConcrete(lang, v) ==
    /\ lang \in Range(settings.LANGUAGES)
    /\ self' = SetAttr(self, get_real_fieldname(Field, lang, active), v)
    /\ hist' = NoCall
    /\ UNCHANGED <<settings, active, meta, attrs, Meta, heap, built, types>>

\* instance.default_lang = code
AssignDefaultLang(code) ==
    /\ meta.default_language_field # None
    /\ self' = SetAttr(self, meta.default_language_field, code)
    /\ hist' = NoCall
    /\ UNCHANGED <<settings, active, meta, attrs, Meta, heap, built, types>>

\* instance.title
Get ==
    /\ LET r == default_value_func_getter(Field, self, meta, settings, active)
       IN  hist' = [op |-> "get", before |-> self, arg |-> None,
                    exc |-> r.exc, val |-> r.val,
                    prevSet |-> (hist.op = "set"),
                    prevArg |-> IF hist.op = "set" THEN hist.arg ELSE None]
    /\ UNCHANGED <<settings, active, self, meta, attrs, Meta, heap, built, types>>

\* instance.title = v
Set(v) ==
    /\ LET r == default_value_func_setter(Field, self, v, meta, settings, active)
       IN  /\ self' = r.obj
           /\ hist' = [op |-> "set", before |-> self, arg |-> v,
                       exc |-> r.exc, val |-> None,
                       prevSet |-> FALSE, prevArg |-> None]
    /\ UNCHANGED <<settings, active, meta, attrs, Meta, heap, built, types>>

Next ==
    \/ \E lang \in ActiveCodes : Activate(lang)
    \/ \E lang \in ConfigurableCodes, v \in Values : AssignConcrete(lang, v)
    \/ \E code \in DefaultLangValues : AssignDefaultLang(code)
    \/ Get
    \/ \E v \in Values : Set(v)

Spec == Init /\ [][Next]_vars

(***************************************************************************)
(* The resolution chain as the specification words it: the primary subtag  *)
(* of a code is the part before its region separator.                      *)
(***************************************************************************)
RECURSIVE PrimarySubtag(_)
PrimarySubtag(code) ==
    IF Len(code) = 0 \/ SubSeq(code, 1, 1) = "-" THEN ""
    ELSE SubSeq(code, 1, 1) \o PrimarySubtag(SubSeq(code, 2, Len(code)))

\* D: the record's default-language attribute when declared and holding a
\* value, otherwise the process fallback language.
ChainDefault(obj) ==
    IF /\ meta.default_language_field # None
       /\ HasAttr(obj, meta.default_language_field)
       /\ Truthy(obj[meta.default_language_field])
    THEN obj[meta.default_language_field]
    ELSE fallback_language(settings)

\* The names of the concrete fields of the chain, in order.
ChainNames(obj, cur) ==
    LET D == ChainDefault(obj)
        name(l) == Field \o "_" \o Replace(l)
    IN  <<name(cur), name(PrimarySubtag(cur)), name(D), name(PrimarySubtag(D))>>

FirstOf(S) == CHOOSE i \in S : \A j \in S : i <= j

\* C1: get returns the value of the first concrete field of the chain
\* [active, primary subtag of active, D, primary subtag of D] whose value is
\* non-empty, and an absent or empty value when none is non-empty.
C1_GetFirstNonEmptyOfChain ==
    hist.op = "get" =>
        LET chain == ChainNames(hist.before, active)
            full == {i \in 1..4 : Truthy(GetAttrOrNone(hist.before, chain[i]))}
        IN  /\ hist.exc = None
            /\ IF full # {}
               THEN hist.val = hist.before[chain[FirstOf(full)]]
               ELSE ~Truthy(hist.val)

\* C2: set writes the value into exactly the first concrete field of the
\* chain that exists on the record and changes nothing else; when none
\* exists the record is unchanged; no error either way.
C2_SetFirstExistingOfChain ==
    hist.op = "set" =>
        LET chain == ChainNames(hist.before, active)
            there == {i \in 1..4 : HasAttr(hist.before, chain[i])}
        IN  /\ hist.exc = None
            /\ IF there # {}
               THEN self = SetAttr(hist.before, chain[FirstOf(there)], hist.arg)
               ELSE self = hist.before

\* C3: when a concrete field of the chain exists, set(record, v) with a
\* non-empty v followed by get(record) under the same active language
\* returns v.
C3_RoundTrip ==
    (/\ hist.op = "get"
     /\ hist.prevSet
     /\ Truthy(hist.prevArg)
     /\ \E i \in 1..4 : HasAttr(hist.before, ChainNames(hist.before, active)[i]))
    => (hist.exc = None /\ hist.val = hist.prevArg)

\* C4: get and set never raise, whatever the active language, the record's
\* default-language value and the fallback language are.
C4_AccessorsNeverRaise ==
    hist.op \in {"get", "set"} => hist.exc = None

(***************************************************************************)
(* Objects of a class namespace.                                           *)
(*   a models.Field: its flags, its default (NOT_PROVIDED or a value,      *)
(*   ref # 0 when the value is a mutable list), its label, the             *)
(*   back-reference transmeta adds, and its choices and validators lists,  *)
(*   which are references into heap;                                       *)
(*   the property transmeta binds to a canonical name;                     *)
(*   the Meta class (its attributes are the variable Meta);                *)
(*   anything else.                                                        *)
(***************************************************************************)
NOT_PROVIDED == [provided |-> FALSE, ref |-> 0]

FieldObj(null, blank, default, verbose_name, choices, validators) ==
    [kind |-> "Field", null |-> null, blank |-> blank, default |-> default,
     verbose_name |-> verbose_name, original_fieldname |-> None,
     choices |-> choices, validators |-> validators]

PropertyObj(field) == [kind |-> "property", fget |-> field, fset |-> field]
MetaObj == [kind |-> "Meta"]
OtherObj == [kind |-> "other"]

IsField(o) == o.kind = "Field"

\* delattr(obj, name) / del d[name]
DelAttr(obj, name) == [n \in DOMAIN obj \ {name} |-> obj[n]]

\* canonical_fieldname(db_field); name is db_field.name, the key it is bound to
canonical_fieldname(db_field, name) ==
    IF db_field.original_fieldname # None THEN db_field.original_fieldname ELSE name

\* string_concat(verbose_name, u' (%s)' % lang_code)
string_concat(verbose_name, lang_code) == verbose_name \o " (" \o lang_code \o ")"

(***************************************************************************)
(* TransMeta.__new__, lines 184-198: the clone made for one language.      *)
(* copy.copy is shallow: the clone holds the references of the original.   *)
(***************************************************************************)
\* The clone with line 192 losing its test of the default: every clone of a
\* non-fallback language is made nullable.
LangAttrForcesNull(original_attr, field, lang_code, default_language, tvn) ==
    LET tagged == [original_attr EXCEPT !.original_fieldname = field]
        relaxed ==
            IF lang_code # default_language
            THEN [tagged EXCEPT !.null = TRUE, !.blank = TRUE]
            ELSE tagged
    IN  IF Truthy(relaxed.verbose_name) /\ tvn
        THEN [relaxed EXCEPT !.verbose_name = string_concat(@, lang_code)]
        ELSE relaxed

LangAttr(original_attr, field, lang_code, default_language, translate_verbose_names) ==
    LET tagged == [original_attr EXCEPT !.original_fieldname = field]
        relaxed ==
            IF lang_code # default_language
            THEN [tagged EXCEPT
                    !.null = IF ~tagged.null /\ ~tagged.default.provided
                             THEN TRUE ELSE tagged.null,
                    !.blank = TRUE]
            ELSE tagged
    IN  IF Truthy(relaxed.verbose_name) /\ translate_verbose_names
        THEN [relaxed EXCEPT !.verbose_name = string_concat(@, lang_code)]
        ELSE relaxed

\* Lines 185-198: the loop over settings.LANGUAGES from position i on.
RECURSIVE ExpandLanguages(_, _, _, _, _, _, _)
ExpandLanguages(a, original_attr, field, langs, i, default_language, tvn) ==
    IF i > Len(langs) THEN a
    ELSE ExpandLanguages(
            SetAttr(a, get_real_fieldname(field, langs[i], None),
                    LangAttr(original_attr, field, langs[i], default_language, tvn)),
            original_attr, field, langs, i + 1, default_language, tvn)

\* Lines 177-200: the loop over the marker from position i on.  seen records
\* the declaration each name was bound to when it was expanded.
RECURSIVE ExpandFields(_, _, _, _, _, _, _)
ExpandFields(a, seen, fields, i, langs, default_language, tvn) ==
    IF i > Len(fields) THEN [raised |-> None, attrs |-> a, seen |-> seen]
    ELSE LET field == fields[i]
         IN  IF ~HasAttr(a, field) \/ ~IsField(a[field])
             THEN [raised |-> "There is no field", attrs |-> a, seen |-> seen]
             ELSE LET original_attr == a[field]
                      expanded == ExpandLanguages(a, original_attr, field, langs, 1,
                                                  default_language, tvn)
                  IN  ExpandFields(SetAttr(expanded, field, PropertyObj(field)),
                                   SetAttr(seen, field, original_attr),
                                   fields, i + 1, langs, default_language, tvn)

\* Lines 163-169: the tuple inherited from the abstract model bases.
RECURSIVE InheritedFields(_, _)
InheritedFields(bases, i) ==
    IF i > Len(bases) THEN <<>>
    ELSE (IF bases[i].has_meta /\ bases[i].abstract /\ bases[i].has_translatable_fields
          THEN bases[i].translatable_fields ELSE <<>>)
         \o InheritedFields(bases, i + 1)

\* get_all_translatable_fields(model): the model's own tuple united with
\* the tuples of model._meta.parents; the result is a tuple of a set, so
\* its content is given here and its order left open.
get_all_translatable_fields(model, parents) ==
    (IF model.has_translatable_fields
     THEN {model.translatable_fields[i] : i \in 1..Len(model.translatable_fields)}
     ELSE {})
    \cup UNION {IF p.has_translatable_fields
                THEN {p.translatable_fields[i] : i \in 1..Len(p.translatable_fields)}
                ELSE {} : p \in parents}

(***************************************************************************)
(* TransMeta.__new__(cls, name, bases, attrs), the whole call.             *)
(* a is attrs, M the attributes of attrs['Meta'].  The outcome gives the   *)
(* namespace and the Meta attributes as the call leaves them, what was     *)
(* raised, and the _meta entries set on the new class.                     *)
(***************************************************************************)
TransMetaNew(bases, a, M, s) ==
    LET hasMeta == HasAttr(a, "Meta")
        hasTvn == hasMeta /\ HasAttr(M, "translate_verbose_names")
        translate_verbose_names == IF hasTvn THEN M["translate_verbose_names"] ELSE TRUE
        M1 == IF hasTvn THEN DelAttr(M, "translate_verbose_names") ELSE M
        hasTranslate == hasMeta /\ HasAttr(M1, "translate")
    IN  IF ~hasTranslate
        THEN [status |-> "ok", raised |-> None, path |-> "inherit",
              attrs |-> a, Meta |-> M1, seen |-> <<>>,
              translatable_fields |-> InheritedFields(bases, 1),
              default_language_field |-> None]
        ELSE
        LET fields == M1["translate"]
            M2 == DelAttr(M1, "translate")
        IN  IF fields.type # "tuple"
            THEN [status |-> "error", raised |-> "must be a tuple", path |-> "marker",
                  attrs |-> a, Meta |-> M2, seen |-> <<>>,
                  translatable_fields |-> <<>>, default_language_field |-> None]
            ELSE
            LET default_language == fallback_language(s)
                r == ExpandFields(a, <<>>, fields.items, 1, s.LANGUAGES,
                                  default_language, translate_verbose_names)
            IN  IF r.raised # None
                THEN [status |-> "error", raised |-> r.raised, path |-> "marker",
                      attrs |-> r.attrs, Meta |-> M2, seen |-> r.seen,
                      translatable_fields |-> <<>>, default_language_field |-> None]
                ELSE
                LET hasDlf == HasAttr(r.attrs, "Meta") /\ HasAttr(M2, "default_language_field")
                    dlf == IF hasDlf /\ HasAttr(r.attrs, M2["default_language_field"])
                           THEN M2["default_language_field"] ELSE None
                    M3 == IF hasDlf THEN DelAttr(M2, "default_language_field") ELSE M2
                IN  [status |-> "ok", raised |-> None, path |-> "marker",
                     attrs |-> r.attrs, Meta |-> M3, seen |-> r.seen,
                     translatable_fields |-> fields.items,
                     default_language_field |-> IF Truthy(dlf) THEN dlf ELSE None]

(***************************************************************************)
(* Class construction specification: a class statement with a Meta class   *)
(* is handed to TransMeta.__new__ once; afterwards a caller may append to  *)
(* a list reached through one of the fields of the namespace.              *)
(***************************************************************************)
BuildCodes == {"en", "fr-ca", "ka"}

\* The declarations of the logical field title the class statement may hold.
TitleDecls ==
    {FieldObj(n, b, d, v, 1, 2) :
        n \in BOOLEAN, b \in BOOLEAN,
        d \in {NOT_PROVIDED, [provided |-> TRUE, ref |-> 3]},
        v \in {None, "Title"}}

\* A second declaration, whose name is also the concrete name of title in en.
TitleEnDecl == FieldObj(TRUE, TRUE, NOT_PROVIDED, None, 4, 5)
DefaultLangDecl == FieldObj(FALSE, TRUE, NOT_PROVIDED, None, 6, 7)

Refs == 1..7

\* Values of Meta.translate: tuples and a list of names.
Markers ==
    {[type |-> "tuple", items |-> q] :
        q \in {<<>>, <<"title">>, <<"title_en">>, <<"title", "title">>,
               <<"title", "title_en">>, <<"title_en", "title">>,
               <<"title", "body">>, <<"body">>}}
    \cup {[type |-> "list", items |-> <<"title">>]}

\* Choices of the initial state that stand for "not in the class statement".
Undeclared == [kind |-> "undeclared"]
NoMarker == [type |-> "none", items |-> <<>>]

\* A function from the pairs of a set of <<key, value>> pairs with distinct keys.
FromPairs(P) == [k \in {p[1] : p \in P} |-> (CHOOSE p \in P : p[1] = k)[2]]

InitBuild ==
    /\ \E langs \in LanguageLists(BuildCodes), code \in {"en", "en-us"} :
          settings = [LANGUAGES |-> langs, LANGUAGE_CODE |-> code,
                      TRANSMETA_DEFAULT_LANGUAGE |-> None]
    /\ \E title \in TitleDecls \cup {OtherObj, Undeclared},
          title_en \in {TitleEnDecl, Undeclared},
          hasMeta \in BOOLEAN :
          attrs = FromPairs(
                    {<<"default_lang", DefaultLangDecl>>}
                    \cup (IF title = Undeclared THEN {} ELSE {<<"title", title>>})
                    \cup (IF title_en = Undeclared THEN {}
                          ELSE {<<"title_en", title_en>>})
                    \cup (IF hasMeta THEN {<<"Meta", MetaObj>>} ELSE {}))
    /\ IF HasAttr(attrs, "Meta")
       THEN \E translate \in Markers \cup {NoMarker},
               tvn \in {None, "set"},
               dlf \in {None, "default_lang", "nope"} :
               Meta = FromPairs(
                    (IF translate = NoMarker THEN {} ELSE {<<"translate", translate>>})
                    \cup (IF tvn = None THEN {}
                          ELSE {<<"translate_verbose_names", FALSE>>})
                    \cup (IF dlf = None THEN {}
                          ELSE {<<"default_language_field", dlf>>}))
       ELSE Meta = <<>>
    /\ heap = [r \in Refs |-> <<>>]
    /\ built = NotBuilt
    /\ hist = NoCall
    /\ active = settings.LANGUAGE_CODE
    /\ self = <<>> /\ meta = <<>> /\ types = <<>>

\* class X(models.Model): __metaclass__ = TransMeta ...
\* models.Model itself carries no _meta, so no base is an abstract model.
Construct ==
    /\ built.status = "none"
    /\ LET r == TransMetaNew(<<>>, attrs, Meta, settings)
       IN  /\ attrs' = r.attrs
           /\ Meta' = r.Meta
           /\ built' = [status |-> r.status, raised |-> r.raised, path |-> r.path,
                        attrs0 |-> attrs, Meta0 |-> Meta, seen |-> r.seen,
                        translatable_fields |-> r.translatable_fields,
                        default_language_field |-> r.default_language_field]
    /\ UNCHANGED <<settings, active, self, meta, hist, heap, types>>

\* field.choices.append(x), field.validators.append(x), field.default.append(x)
\* on the field bound to name in the namespace of the built class.
ListRef(o, which) ==
    IF which = "choices" THEN o.choices
    ELSE IF which = "validators" THEN o.validators
    ELSE o.default.ref

MutateList(name, which) ==
    /\ built.status = "ok"
    /\ hist.op = "none"
    /\ HasAttr(attrs, name)
    /\ IsField(attrs[name])
    /\ ListRef(attrs[name], which) # 0
    /\ heap' = [heap EXCEPT ![ListRef(attrs[name], which)] = Append(@, "x")]
    /\ hist' = [op |-> "mutate", name |-> name, which |-> which, before |-> heap]
    /\ UNCHANGED <<settings, active, self, meta, attrs, Meta, built, types>>

ListKinds == {"choices", "validators", "default"}

NextBuild ==
    \/ Construct
    \/ \E name \in DOMAIN attrs, which \in ListKinds : MutateList(name, which)

SpecBuild == InitBuild /\ [][NextBuild]_vars

(***************************************************************************)
(* Properties of class construction.                                       *)
(***************************************************************************)
\* The concrete name of the specification: canonical name, an underscore,
\* the language code with its hyphens turned into underscores.
ConcreteName(f, L) == f \o "_" \o Replace(L)

Expanded == built.status = "ok" /\ built.path = "marker"
Configured == Range(settings.LANGUAGES)

\* C5: after a successful construction every pair (canonical name f of the
\* marker, configured language L) has exactly one concrete field, bound to
\* f_normalize(L), whose reverse lookup gives f, and f itself is bound to
\* the virtual accessor and not to a stored field.
C5_OneConcreteFieldPerLanguage ==
    Expanded =>
        \A f \in Range(built.translatable_fields) :
            /\ \A L \in Configured :
                  /\ HasAttr(attrs, ConcreteName(f, L))
                  /\ IsField(attrs[ConcreteName(f, L)])
                  /\ canonical_fieldname(attrs[ConcreteName(f, L)],
                                         ConcreteName(f, L)) = f
            /\ {n \in DOMAIN attrs :
                   IsField(attrs[n]) /\ attrs[n].original_fieldname = f}
               = {ConcreteName(f, L) : L \in Configured}
            /\ HasAttr(attrs, f)
            /\ attrs[f].kind = "property"

\* C6 as stated: every concrete field of a non-fallback language is nullable
\* and optional whatever the original declares, the fallback language's
\* concrete field keeps the original's nullable and required values, and so
\* exactly one concrete field per logical field keeps them.
C6_NonFallbackAlwaysNullable ==
    Expanded =>
        \A f \in Range(built.translatable_fields) :
            /\ HasAttr(built.attrs0, f)
            /\ IsField(built.attrs0[f])
            /\ \A L \in Configured :
                  /\ HasAttr(attrs, ConcreteName(f, L))
                  /\ IsField(attrs[ConcreteName(f, L)])
                  /\ IF L # fallback_language(settings)
                     THEN /\ attrs[ConcreteName(f, L)].null
                          /\ attrs[ConcreteName(f, L)].blank
                     ELSE /\ attrs[ConcreteName(f, L)].null = built.attrs0[f].null
                          /\ attrs[ConcreteName(f, L)].blank = built.attrs0[f].blank
            /\ Cardinality(
                  {L \in Configured :
                      /\ attrs[ConcreteName(f, L)].null = built.attrs0[f].null
                      /\ attrs[ConcreteName(f, L)].blank = built.attrs0[f].blank}) = 1

\* C6 as amended: a concrete field of a non-fallback language is optional,
\* and it is nullable unless the declaration expanded for its logical field
\* is non-nullable and has an explicit default, in which case it stays
\* non-nullable; the concrete field of the fallback language has exactly the
\* nullable and required values of the declaration expanded.
C6_NonFallbackRelaxedUnlessDefault ==
    Expanded =>
        \A f \in DOMAIN built.seen : \A L \in Configured :
            LET n == ConcreteName(f, L)
            IN  (HasAttr(attrs, n) /\ IsField(attrs[n])
                 /\ attrs[n].original_fieldname = f)
                => IF L # fallback_language(settings)
                   THEN /\ attrs[n].blank
                        /\ attrs[n].null
                           = (built.seen[f].null \/ ~built.seen[f].default.provided)
                   ELSE /\ attrs[n].null = built.seen[f].null
                        /\ attrs[n].blank = built.seen[f].blank

\* C6 witness: a successful expansion left a non-fallback concrete field
\* non-nullable (its original is non-nullable with an explicit default) next
\* to a fallback concrete field of a required original.
C6_Witness ==
    /\ Expanded
    /\ \E f \in DOMAIN built.seen : \E L1, L2 \in Configured :
          /\ L1 # fallback_language(settings)
          /\ L2 = fallback_language(settings)
          /\ HasAttr(attrs, ConcreteName(f, L1))
          /\ IsField(attrs[ConcreteName(f, L1)])
          /\ attrs[ConcreteName(f, L1)].original_fieldname = f
          /\ ~attrs[ConcreteName(f, L1)].null
          /\ attrs[ConcreteName(f, L1)].blank
          /\ ~built.seen[f].blank
          /\ HasAttr(attrs, ConcreteName(f, L2))
          /\ IsField(attrs[ConcreteName(f, L2)])
          /\ ~attrs[ConcreteName(f, L2)].blank

\* The marker of the call, when the class statement gave one.
HadMarker ==
    /\ built.status # "none"
    /\ HasAttr(built.attrs0, "Meta")
    /\ HasAttr(built.Meta0, "translate")

\* C8: a marker that is not a tuple of unique names makes construction fail
\* with ConfigError (the "must be a tuple" error), a name of the marker that
\* is not a declared field makes it fail with FieldNotFoundError (the
\* "There is no field" error), and no type is produced in either case
\* (a marker that is both may fail with either error).
C8_DeclarationErrors ==
    HadMarker =>
        LET marker == built.Meta0["translate"]
            improper == marker.type # "tuple" \/ ~NoRepeat(marker.items)
            unknown == \E i \in 1..Len(marker.items) :
                          \/ ~HasAttr(built.attrs0, marker.items[i])
                          \/ ~IsField(built.attrs0[marker.items[i]])
        IN  /\ (improper \/ unknown) => built.status = "error"
            /\ (improper /\ ~unknown) => built.raised = "must be a tuple"
            /\ (unknown /\ ~improper) => built.raised = "There is no field"

\* C9: when construction aborts, the caller's namespace and Meta class are
\* as they were before the call.
C9_NoPartialMutationOnError ==
    built.status = "error" => (attrs = built.attrs0 /\ Meta = built.Meta0)

\* C10: appending to the choices, validators or default list of one
\* language's concrete field changes neither the original declaration's
\* list nor that of any other language's concrete field.
C10_ClonesShareNothing ==
    (hist.op = "mutate" /\ attrs[hist.name].original_fieldname # None) =>
        LET f == attrs[hist.name].original_fieldname
            same(o) == heap[ListRef(o, hist.which)]
                       = hist.before[ListRef(o, hist.which)]
        IN  /\ same(built.seen[f])
            /\ \A n \in DOMAIN attrs \ {hist.name} :
                  (IsField(attrs[n]) /\ attrs[n].original_fieldname = f)
                  => same(attrs[n])

(***************************************************************************)
(* Inheritance specification: model classes are declared one after the     *)
(* other, each with up to two of the earlier classes as bases, abstract or *)
(* not, with or without a translate marker of its own.                     *)
(***************************************************************************)
PlainDecl == FieldObj(FALSE, FALSE, NOT_PROVIDED, None, 1, 2)

InheritMarkers ==
    {NoMarker} \cup
    {[type |-> "tuple", items |-> q] :
        q \in {<<"title">>, <<"body">>, <<"title", "body">>}}

\* The classes a class derives from, directly or not.
RECURSIVE Ancestors(_, _)
Ancestors(ts, i) ==
    LET direct == {ts[i].bases[k] : k \in 1..Len(ts[i].bases)}
    IN  direct \cup UNION {Ancestors(ts, b) : b \in direct}

\* Python builds a class only if its bases can be linearised: with two
\* bases, the first must not be an ancestor of the second.
Linearisable(ts, bs) ==
    /\ NoRepeat(bs)
    /\ \A i, j \in 1..Len(bs) : i < j => bs[i] \notin Ancestors(ts, bs[j])

InitInherit ==
    /\ settings = [LANGUAGES |-> <<"en", "fr">>, LANGUAGE_CODE |-> "en",
                   TRANSMETA_DEFAULT_LANGUAGE |-> None]
    /\ types = <<>>
    /\ active = "en" /\ self = <<>> /\ meta = <<>> /\ hist = NoCall
    /\ attrs = <<>> /\ Meta = <<>> /\ heap = <<>> /\ built = NotBuilt

\* class X(B1, B2): __metaclass__ = TransMeta; fields; class Meta: ...
DeclareType(bs, abstract, marker) ==
    /\ Len(types) < MaxTypes
    /\ Linearisable(types, bs)
    /\ LET a == FromPairs({<<"Meta", MetaObj>>}
                          \cup {<<marker.items[i], PlainDecl>> :
                                   i \in 1..Len(marker.items)})
           M == FromPairs((IF abstract THEN {<<"abstract", [type |-> "bool"]>>} ELSE {})
                          \cup (IF marker = NoMarker THEN {}
                                ELSE {<<"translate", marker>>}))
           r == TransMetaNew([i \in 1..Len(bs) |-> types[bs[i]]], a, M, settings)
       IN  /\ r.status = "ok"
           /\ types' = Append(types,
                [has_meta |-> TRUE, abstract |-> abstract,
                 has_translatable_fields |-> TRUE,
                 translatable_fields |-> r.translatable_fields,
                 bases |-> bs,
                 declares |-> marker # NoMarker,
                 declared |-> marker.items])
    /\ UNCHANGED <<settings, active, self, meta, hist, attrs, Meta, heap, built>>

NextInherit ==
    \E bs \in SeqsOver(1..Len(types), 2),
       concrete \in BOOLEAN,
       marker \in InheritMarkers :
        DeclareType(bs, ~concrete, marker)

SpecInherit == InitInherit /\ [][NextInherit]_vars

\* C7: a type without a marker of its own carries the union, without
\* duplicates, of the translatable-field sets declared by all the abstract
\* types among its ancestors, direct or not.
C7_InheritsUnionOfAbstractAncestors ==
    \A i \in 1..Len(types) :
        ~types[i].declares =>
            /\ Range(types[i].translatable_fields)
               = UNION {Range(types[a].declared) :
                           a \in {b \in Ancestors(types, i) : types[b].abstract}}
            /\ NoRepeat(types[i].translatable_fields)

====
